---------------------------- MODULE Spec2Model ----------------------------
(***************************************************************************)
(* Sandboxed Python execution and tool-call orchestration of the           *)
(* math-learning-assistant:                                                *)
(*   src/utils/executePython.ts      validatePythonCode, executePythonCode *)
(*   src/components/PythonExecutor.tsx   the /execute handler              *)
(*   src/app/api/chat/route.ts       the multi-tool /chat route            *)
(*   src/app/api/handler.ts          the single-tool-call /chat variant    *)
(*                                                                         *)
(* A text is a sequence of strings. Snippets and the output of the child  *)
(* process are sequences of one-character strings, so that the regular     *)
(* expression, trim, split and includes of the source are computed on      *)
(* characters; a message literal of the source is kept as one element.     *)
(***************************************************************************)
EXTENDS Integers, Sequences, FiniteSets, TLC

(***************************************************************************)
(* Characters and words                                                    *)
(***************************************************************************)
Lower ==
    {"a", "b", "c", "d", "e", "f", "g", "h", "i", "j", "k", "l", "m", "n",
     "o", "p", "q", "r", "s", "t", "u", "v", "w", "x", "y", "z"}

Upper ==
    {"A", "B", "C", "D", "E", "F", "G", "H", "I", "J", "K", "L", "M", "N",
     "O", "P", "Q", "R", "S", "T", "U", "V", "W", "X", "Y", "Z"}

Digits ==
    {"0", "1", "2", "3", "4", "5", "6", "7", "8", "9"}

\* \s of the regular expression, and the characters String.trim removes
Whitespace ==
    {" ", "\t", "\n", "\r"}

\* the character class [a-zA-Z0-9_,\s] of the import pattern
ImportClass ==
    Lower \cup Upper \cup Digits \cup {"_", ","} \cup Whitespace

W_import == <<"i", "m", "p", "o", "r", "t">>
W_from == <<"f", "r", "o", "m">>
W_math == <<"m", "a", "t", "h">>
W_numpy == <<"n", "u", "m", "p", "y">>
W_statistics == <<"s", "t", "a", "t", "i", "s", "t", "i", "c", "s">>
W_random == <<"r", "a", "n", "d", "o", "m">>
W_decimal == <<"d", "e", "c", "i", "m", "a", "l">>
W_fractions == <<"f", "r", "a", "c", "t", "i", "o", "n", "s">>
W_operator == <<"o", "p", "e", "r", "a", "t", "o", "r">>
W_socket == <<"s", "o", "c", "k", "e", "t">>
W_os == <<"o", "s">>
W_sqrt == <<"s", "q", "r", "t">>

\* src/utils/executePython.ts:11-14
ALLOWED_MODULES ==
    {W_math, W_numpy, W_statistics, W_random, W_decimal, W_fractions, W_operator}

\* src/utils/executePython.ts:29-32
blacklist ==
    { <<"o", "p", "e", "n">>,
      <<"f", "i", "l", "e">>,
      <<"e", "x", "e", "c">>,
      <<"e", "v", "a", "l">>,
      <<"s", "u", "b", "p", "r", "o", "c", "e", "s", "s">>,
      <<"o", "s", ".">>,
      <<"s", "y", "s", ".">>,
      <<"_", "_", "i", "m", "p", "o", "r", "t", "_", "_">>,
      <<"i", "n", "p", "u", "t", "(">> }

(***************************************************************************)
(* String operations of the JavaScript runtime, on character sequences     *)
(***************************************************************************)
\* w occurs in s at position p
StartsAt(s, p, w) ==
    /\ p >= 1
    /\ p + Len(w) - 1 <= Len(s)
    /\ SubSeq(s, p, p + Len(w) - 1) = w

\* String.prototype.includes
Includes(s, w) ==
    \E p \in 1..(Len(s) + 1) : StartsAt(s, p, w)

\* the position of the first occurrence of w in s, 0 when there is none
IndexOf(s, w) ==
    IF Includes(s, w)
    THEN CHOOSE p \in 1..(Len(s) + 1) :
            /\ StartsAt(s, p, w)
            /\ \A q \in 1..(p - 1) : ~StartsAt(s, q, w)
    ELSE 0

\* String.prototype.replace(w, '') with a string pattern: the first occurrence only
RemoveFirst(s, w) ==
    LET p == IndexOf(s, w)
    IN  IF p = 0 THEN s
        ELSE SubSeq(s, 1, p - 1) \o SubSeq(s, p + Len(w), Len(s))

RECURSIVE TrimStart(_)
TrimStart(s) ==
    IF s # <<>> /\ Head(s) \in Whitespace THEN TrimStart(Tail(s)) ELSE s

RECURSIVE TrimEnd(_)
TrimEnd(s) ==
    IF s # <<>> /\ s[Len(s)] \in Whitespace
    THEN TrimEnd(SubSeq(s, 1, Len(s) - 1))
    ELSE s

\* String.prototype.trim
Trim(s) ==
    TrimEnd(TrimStart(s))

\* String.prototype.split(','): the pieces between the commas, in order
RECURSIVE SplitComma(_)
SplitComma(s) ==
    LET p == IndexOf(s, <<",">>)
    IN  IF p = 0 THEN <<s>>
        ELSE <<SubSeq(s, 1, p - 1)>> \o SplitComma(SubSeq(s, p + 1, Len(s)))

\* the length of the longest run of characters of class cls that starts at p
RECURSIVE RunLen(_, _, _)
RunLen(s, p, cls) ==
    IF p <= Len(s) /\ s[p] \in cls THEN 1 + RunLen(s, p + 1, cls) ELSE 0

(***************************************************************************)
(* validatePythonCode (src/utils/executePython.ts:16-35)                   *)
(***************************************************************************)
\* The length of the match of /import\s+([a-zA-Z0-9_,\s]+)/ anchored at p, 0
\* when it does not match there. \s+ is greedy and takes the whole whitespace
\* run (ws characters); the group then takes the rest of the class run. When
\* nothing follows the whitespace, \s+ gives one character back to the group,
\* which needs ws >= 2.
ImportMatchLen(s, p) ==
    IF ~StartsAt(s, p, W_import) THEN 0
    ELSE LET ws == RunLen(s, p + 6, Whitespace)
             rest == RunLen(s, p + 6 + ws, ImportClass)
         IN  IF ws >= 1 /\ (rest >= 1 \/ ws >= 2) THEN 6 + ws + rest ELSE 0

\* code.match(/.../g) || []: the leftmost matches from p on, without overlap
RECURSIVE ImportMatchesFrom(_, _)
ImportMatchesFrom(s, p) ==
    IF p > Len(s) THEN <<>>
    ELSE LET n == ImportMatchLen(s, p)
         IN  IF n > 0
             THEN <<SubSeq(s, p, p + n - 1)>> \o ImportMatchesFrom(s, p + n)
             ELSE ImportMatchesFrom(s, p + 1)

importMatches(code) ==
    ImportMatchesFrom(code, 1)

\* match.replace('import', '').trim().split(',') of one match
ModulesOf(match) ==
    SplitComma(Trim(RemoveFirst(match, W_import)))

\* the import loop of lines 19-26: no module of any match is outside the allow-set
ImportsAllowed(code) ==
    \A i \in DOMAIN importMatches(code) :
        LET modules == ModulesOf(importMatches(code)[i])
        IN  \A j \in DOMAIN modules : Trim(modules[j]) \in ALLOWED_MODULES

\* a check that looks for the terms at the start of the snippet only
BlacklistHitAtStart(code) ==
    \E term \in blacklist : StartsAt(code, 1, term)

\* line 34
BlacklistHit(code) ==
    \E term \in blacklist : Includes(code, term)

validatePythonCode(code) ==
    IF ~ImportsAllowed(code) THEN FALSE ELSE ~BlacklistHit(code)

(***************************************************************************)
(* Bounds and input sets                                                   *)
(***************************************************************************)
\* the number of parts of one model response
MaxParts == 2

\* the number of statements of a generated snippet
MaxLines == 2

\* the number of requests the chat page sends
MaxRequests == 3

\* two of the names join(tmpdir(), `python-${crypto.randomBytes(6).toString('hex')}.py`)
\* can yield; an invocation may draw either, also one that was drawn before
Names == {"python-0a1b2c3d4e5f.py", "python-f5e4d3c2b1a0.py"}

\* the invocations of executePythonCode that can be in progress
Callers == {"c1", "c2"}

NL == <<"\n">>

\* 'print(2 + 2)'
S_print == <<"p", "r", "i", "n", "t", "(", "2", " ", "+", " ", "2", ")">>

\* 'print(math.sqrt(16))'
S_sqrt16 ==
    <<"p", "r", "i", "n", "t", "(", "m", "a", "t", "h", ".", "s", "q", "r", "t",
      "(", "1", "6", ")", ")">>

\* 'import math\nprint(math.sqrt(16))', the accepted scenario of the specification
S_mathScenario == W_import \o <<" ">> \o W_math \o NL \o S_sqrt16

\* "import os\nos.system('ls')", the rejected scenario of the specification
S_osScenario ==
    W_import \o <<" ">> \o W_os \o NL \o
    <<"o", "s", ".", "s", "y", "s", "t", "e", "m", "(", "'", "l", "s", "'", ")">>

\* 'x = 1', which prints nothing
S_assign == <<"x", " ", "=", " ", "1">>

\* the snippets a request can carry
Snippets == {S_print, S_assign, S_mathScenario, S_osScenario}

\* what the Python interpreter prints for a snippet that runs to its end
ProgramOutput(code) ==
    CASE code = S_print -> <<"4", "\n">>
      [] code = S_mathScenario -> <<"4", ".", "0", "\n">>
      [] OTHER -> <<>>

\* what the child process can write to its standard error
StderrSet == { <<>>, <<"N", "a", "m", "e", "E", "r", "r", "o", "r", "\n">> }

(***************************************************************************)
(* Values                                                                  *)
(***************************************************************************)
\* { output?: string; error?: string }
ResultOutput(t) == [hasOutput |-> TRUE, output |-> t, hasError |-> FALSE, error |-> <<>>]

ResultError(t) == [hasOutput |-> FALSE, output |-> <<>>, hasError |-> TRUE, error |-> t]

NoResult == [hasOutput |-> FALSE, output |-> <<>>, hasError |-> FALSE, error |-> <<>>]

\* the literals of the source, each kept as one element
MsgInvalid == <<"Invalid or unauthorized Python code">>

MsgTimedOut == <<"Execution timed out">>

W_ETIMEDOUT == <<"ETIMEDOUT">>

\* error.message of the rejections of execAsync and writeFile (Node.js)
MsgCommandFailed(stderr) == <<"Command failed: python \"<tempFileName>\"", "\n">> \o stderr

MsgMaxBuffer == <<"stdout maxBuffer length exceeded">>

MsgSpawn == <<"spawn /bin/sh EAGAIN">>

\* the rejections of writeFile: the open fails and no file is created, or the
\* write fails and leaves the file it created, empty
WriteErrors ==
    { [message |-> <<"ENOSPC", ": no space left on device, write">>, created |-> TRUE],
      [message |-> <<"ETIMEDOUT", ": connection timed out, open '<tempFileName>'">>,
       created |-> FALSE] }

NoChild == [kind |-> "none", exitCode |-> 0, stdout |-> <<>>, stderr |-> <<>>]

IdleExec ==
    [pc |-> "idle", hasCode |-> FALSE, code |-> <<>>, tempFileName |-> "",
     validated |-> FALSE, child |-> NoChild, result |-> NoResult, message |-> <<>>,
     wrote |-> FALSE, unlinkAttempts |-> 0, unlinkOk |-> FALSE]

(***************************************************************************)
(* State                                                                   *)
(***************************************************************************)
VARIABLES
    ex,                 \* per caller: the invocation of executePythonCode in progress
    files,              \* tmpdir(): the set of <<name, content>> of the files that exist
    children,           \* the callers whose child process is live
    kind,               \* the endpoint that serves the request
    pc,                 \* the position of the request handler
    parts,              \* response.candidates[0].content.parts of the first model response
    idx,                \* the part the loop is at
    functionResponse,   \* route.ts: functionResponse of the current part
    finalResponse,      \* route.ts: finalResponse
    http,               \* the HTTP response sent, if any
    modelCalls,         \* the sendMessage calls made on the chat session, in order
    dispatched,         \* the parts whose tool handler has been entered, in order
    slot,               \* the invocation of executePythonCode the handler awaits
    vsnippet,           \* validator runs: the snippet
    vimports,           \* validator runs: the modules the snippet's import statements name
    vlines,             \* validator runs: the number of statements of the snippet
    vpc,                \* validator runs: "input" or "validated"
    verdict,            \* validator runs: what validatePythonCode returned
    args,               \* tool-call runs: part.functionCall.args of the call
    page                \* the chat page: the state of the Home component and its requests

execVars == <<ex, files, children>>

reqVars ==
    <<kind, pc, parts, idx, functionResponse, finalResponse, http, modelCalls, dispatched,
      slot>>

valVars == <<vsnippet, vimports, vlines, vpc, verdict, args, page>>

vars == <<ex, files, children, kind, pc, parts, idx, functionResponse, finalResponse,
          http, modelCalls, dispatched, slot, vsnippet, vimports, vlines, vpc, verdict,
          args, page>>

FileExists(n) == \E f \in files : f[1] = n

(***************************************************************************)
(* executePythonCode (src/utils/executePython.ts:37-74)                    *)
(***************************************************************************)
\* line 38: the condition of the early return
RejectedNever(code) == FALSE

Rejected(code) == ~validatePythonCode(code)

\* Lines 38-46, up to the first await. A missing code argument makes
\* code.match throw a TypeError before anything is created.
CallExecutePythonCode(hasCode, code, n) ==
    IF ~hasCode THEN [IdleExec EXCEPT !.pc = "thrown"]
    ELSE IF Rejected(code)
    THEN [IdleExec EXCEPT !.pc = "returned", !.hasCode = TRUE, !.code = code,
                          !.result = ResultError(MsgInvalid)]
    ELSE [IdleExec EXCEPT !.pc = "writeFile", !.hasCode = TRUE, !.code = code,
                          !.validated = validatePythonCode(code), !.tempFileName = n]

\* lines 60-65
CatchResult(message) ==
    ResultError(IF Includes(message, W_ETIMEDOUT) THEN MsgTimedOut ELSE message)

\* error.message of a rejected execAsync
ExecErrorMessage(child) ==
    CASE child.kind = "maxBuffer" -> MsgMaxBuffer
      [] child.kind = "spawnError" -> MsgSpawn
      [] OTHER -> MsgCommandFailed(child.stderr)

\* lines 49-65: what the invocation returns once the child is gone
ResultOfChild(child) ==
    IF child.kind = "exit" /\ child.exitCode = 0
    THEN IF child.stderr # <<>>
         THEN ResultError(child.stderr)
         ELSE ResultOutput(Trim(child.stdout))
    ELSE CatchResult(ExecErrorMessage(child))

\* line 46 succeeds and line 49 launches the child
ExecWriteFileOk(c) ==
    /\ ex[c].pc = "writeFile"
    /\ files' = {f \in files : f[1] # ex[c].tempFileName}
                    \cup {<<ex[c].tempFileName, ex[c].code>>}
    /\ \/ /\ children' = children \cup {c}
          /\ ex' = [ex EXCEPT ![c].pc = "running", ![c].wrote = TRUE]
       \/ /\ children' = children
          /\ ex' = [ex EXCEPT ![c].pc = "afterChild", ![c].wrote = TRUE,
                              ![c].child = [NoChild EXCEPT !.kind = "spawnError"]]
    /\ UNCHANGED <<reqVars, valVars>>

\* line 46 throws; the file may have been created before the write failed
ExecWriteFileFail(c) ==
    /\ ex[c].pc = "writeFile"
    /\ \E err \in WriteErrors :
        /\ files' = IF err.created
                    THEN {f \in files : f[1] # ex[c].tempFileName}
                            \cup {<<ex[c].tempFileName, <<>> >>}
                    ELSE files
        /\ ex' = [ex EXCEPT ![c].pc = "unlink", ![c].wrote = err.created,
                            ![c].message = err.message,
                            ![c].result = CatchResult(err.message)]
    /\ UNCHANGED <<children, reqVars, valVars>>

\* the child ends by itself
ChildExit(c) ==
    /\ ex[c].pc = "running"
    /\ c \in children
    /\ \E code \in {0, 1}, err \in StderrSet :
        ex' = [ex EXCEPT ![c].pc = "afterChild",
                         ![c].child = [kind |-> "exit", exitCode |-> code,
                                       stdout |-> IF code = 0
                                                  THEN ProgramOutput(ex[c].code)
                                                  ELSE <<>>,
                                       stderr |-> err]]
    /\ children' = children \ {c}
    /\ UNCHANGED <<files, reqVars, valVars>>

\* line 52: the timeout of exec kills the child
ChildTimeout(c) ==
    /\ ex[c].pc = "running"
    /\ c \in children
    /\ ex' = [ex EXCEPT ![c].pc = "afterChild",
                        ![c].child = [NoChild EXCEPT !.kind = "timeout"]]
    /\ children' = children \ {c}
    /\ UNCHANGED <<files, reqVars, valVars>>

\* line 51: more than maxBuffer bytes of output kill the child
ChildMaxBuffer(c) ==
    /\ ex[c].pc = "running"
    /\ c \in children
    /\ ex' = [ex EXCEPT ![c].pc = "afterChild",
                        ![c].child = [NoChild EXCEPT !.kind = "maxBuffer"]]
    /\ children' = children \ {c}
    /\ UNCHANGED <<files, reqVars, valVars>>

\* lines 49-65: execAsync settles and the result is computed
ExecAfterChild(c) ==
    /\ ex[c].pc = "afterChild"
    /\ ex' = [ex EXCEPT ![c].pc = "unlink",
                        ![c].result = ResultOfChild(ex[c].child),
                        ![c].message = IF ex[c].child.kind = "exit" /\ ex[c].child.exitCode = 0
                                       THEN <<>>
                                       ELSE ExecErrorMessage(ex[c].child)]
    /\ UNCHANGED <<files, children, reqVars, valVars>>

\* an invocation that returns without its finally block
ExecFinallyNoUnlink(c) ==
    /\ ex[c].pc = "unlink"
    /\ ex' = [ex EXCEPT ![c].pc = "returned"]
    /\ UNCHANGED <<files, children, reqVars, valVars>>

\* a finally block whose failed unlink replaces the result
ExecFinallySurfaces(c) ==
    /\ ex[c].pc = "unlink"
    /\ \E ok \in BOOLEAN :
        /\ ok => FileExists(ex[c].tempFileName)
        /\ files' = IF ok THEN {f \in files : f[1] # ex[c].tempFileName} ELSE files
        /\ ex' = [ex EXCEPT ![c].pc = "returned",
                            ![c].unlinkAttempts = ex[c].unlinkAttempts + 1,
                            ![c].unlinkOk = ok,
                            ![c].result = IF ok THEN ex[c].result
                                          ELSE ResultError(<<"ENOENT", ": unlink">>)]
    /\ UNCHANGED <<children, reqVars, valVars>>

\* a finally block that clears the temp directory
ExecFinallyRemovesAll(c) ==
    /\ ex[c].pc = "unlink"
    /\ \E ok \in BOOLEAN :
        /\ ok => FileExists(ex[c].tempFileName)
        /\ files' = IF ok THEN {} ELSE files
        /\ ex' = [ex EXCEPT ![c].pc = "returned",
                            ![c].unlinkAttempts = ex[c].unlinkAttempts + 1,
                            ![c].unlinkOk = ok]
    /\ UNCHANGED <<children, reqVars, valVars>>

\* lines 66-73: unlink succeeds or fails (and is then only logged); the
\* invocation returns its result
ExecFinally(c) ==
    /\ ex[c].pc = "unlink"
    /\ \E ok \in BOOLEAN :
        /\ ok => FileExists(ex[c].tempFileName)
        /\ files' = IF ok THEN {f \in files : f[1] # ex[c].tempFileName} ELSE files
        /\ ex' = [ex EXCEPT ![c].pc = "returned",
                            ![c].unlinkAttempts = ex[c].unlinkAttempts + 1,
                            ![c].unlinkOk = ok]
    /\ UNCHANGED <<children, reqVars, valVars>>

ExecStep(c) ==
    \/ ExecWriteFileOk(c)
    \/ ExecWriteFileFail(c)
    \/ ChildExit(c)
    \/ ChildTimeout(c)
    \/ ChildMaxBuffer(c)
    \/ ExecAfterChild(c)
    \/ ExecFinally(c)

(***************************************************************************)
(* Values of the request handlers                                          *)
(***************************************************************************)
\* a functionResponse of route.ts: null, undefined, a string or an object
FRNull == [type |-> "null", text |-> <<>>]

FRUndefined == [type |-> "undefined", text |-> <<>>]

FRAbsent == [type |-> "absent", text |-> <<>>]

FRText(t) == [type |-> "text", text |-> t]

FRObject(k) == [type |-> k, text |-> <<>>]

\* JavaScript truthiness of such a value
Truthy(v) ==
    \/ v.type \in {"chart", "mermaid", "quiz"}
    \/ v.type = "text" /\ v.text # <<>>

\* a || b
OrElse(a, b) == IF Truthy(a) THEN a ELSE b

\* data.output and data.error as JavaScript values
OutputOf(data) == IF data.hasOutput THEN FRText(data.output) ELSE FRUndefined

ErrorOf(data) == IF data.hasError THEN FRText(data.error) ELSE FRUndefined

NoHttp == [status |-> 0, field |-> "none", value |-> FRAbsent, functionOutput |-> FRAbsent]

Http(status, field, value, fo) ==
    [status |-> status, field |-> field, value |-> value, functionOutput |-> fo]

NoFinal == [set |-> FALSE, response |-> <<>>, functionOutput |-> FRAbsent]

\* the parts of a model response
TextPart == [isCall |-> FALSE, name |-> "", hasCode |-> FALSE, code |-> <<>>]

CallPart(name) == [isCall |-> TRUE, name |-> name, hasCode |-> FALSE, code |-> <<>>]

RunPythonPart(code) == [isCall |-> TRUE, name |-> "runPython", hasCode |-> TRUE, code |-> code]

\* the tools declared to the model (route.ts:78-178), and a name that is none of them
RegisteredTools == {"runPython", "getChart", "generateMermaid", "generateQuiz"}

PartSet ==
    {TextPart, CallPart("runPython"), CallPart("getChart"), CallPart("generateMermaid"),
     CallPart("generateQuiz"), CallPart("deleteFiles")}
        \cup {RunPythonPart(code) : code \in Snippets}

Responses == UNION {[1..n -> PartSet] : n \in 0..MaxParts}

\* response.text() of the first model response and of the k-th sendMessage
FirstText == <<"text of the first model response">>

ReplyText(k) == <<"text of the reply to call ", ToString(k)>>

UserCall == [type |-> "user", name |-> "", content |-> FRAbsent, part |-> 0, failed |-> FALSE]

FunctionResponseCall(name, content, i) ==
    [type |-> "functionResponse", name |-> name, content |-> content, part |-> i,
     failed |-> FALSE]

Range(f) == {f[i] : i \in DOMAIN f}

\* JavaScript values of the arguments of a function call
JsUndefined == [t |-> "undefined", v |-> <<>>]

JsString(x) == [t |-> "string", v |-> x]

JsNumber == [t |-> "number", v |-> <<"42">>]

\* an array of numbers and an array of strings
JsNumbers == [t |-> "numbers", v |-> <<"1", "4", "9">>]

JsStrings == [t |-> "strings", v |-> <<"a", "b", "c">>]

\* part.functionCall.args: absent, or an object whose missing properties are undefined
NoArgs ==
    [present |-> FALSE, type |-> JsUndefined, code |-> JsUndefined, data |-> JsUndefined,
     labels |-> JsUndefined, question |-> JsUndefined, options |-> JsUndefined,
     correctAnswer |-> JsUndefined]

EmptyArgs == [NoArgs EXCEPT !.present = TRUE]

\* the enumerations of the tool declarations (route.ts:89, 118, 134)
ChartTypes == { <<"bar">>, <<"line">>, <<"pie">> }

DiagramTypes ==
    { <<"flowchart">>, <<"sequence">>, <<"class">>, <<"state">>, <<"er">>, <<"gantt">> }

QuizTypes == { <<"mcq">>, <<"fillInBlank">> }

\* diagram texts a model can pass as args.code: 'A-->B', 'flowchart TD\nA-->B',
\* 'graph TD\nA-->B' and 'sequenceDiagram\nA->>B: hi'
D_edge == <<"A", "-", "-", ">", "B">>

D_flowchart == <<"f", "l", "o", "w", "c", "h", "a", "r", "t", " ", "T", "D", "\n">> \o D_edge

D_graph == <<"g", "r", "a", "p", "h", " ", "T", "D", "\n">> \o D_edge

D_sequence ==
    <<"s", "e", "q", "u", "e", "n", "c", "e", "D", "i", "a", "g", "r", "a", "m", "\n">> \o
    <<"A", "-", ">", ">", "B", ":", " ", "h", "i">>

DiagramCodes == {D_edge, D_flowchart, D_graph, D_sequence}

\* the arguments a model can send with a getChart, generateMermaid or
\* generateQuiz call: what the declaration asks for, a required parameter
\* missing, a value of another type, a value outside the enumeration, no args
ArgSets(name) ==
    {NoArgs} \cup
    CASE name = "getChart" ->
            { [EmptyArgs EXCEPT !.type = ty, !.data = d, !.labels = l] :
                ty \in {JsString(<<"bar">>), JsString(<<"scatter">>), JsUndefined},
                d \in {JsNumbers, JsString(<<"1, 4, 9">>), JsUndefined},
                l \in {JsStrings, JsUndefined} }
      [] name = "generateMermaid" ->
            { [EmptyArgs EXCEPT !.type = ty, !.code = c] :
                ty \in {JsString(x) : x \in DiagramTypes}
                        \cup {JsString(<<"pie">>), JsUndefined},
                c \in {JsString(x) : x \in DiagramCodes} \cup {JsNumber, JsUndefined} }
      [] name = "generateQuiz" ->
            { [EmptyArgs EXCEPT !.type = ty, !.question = q, !.options = o,
                                !.correctAnswer = a] :
                ty \in {JsString(x) : x \in QuizTypes}
                        \cup {JsString(<<"essay">>), JsUndefined},
                q \in {JsString(<<"What is 2 + 2?">>), JsUndefined},
                o \in {JsStrings, JsUndefined},
                a \in {JsString(<<"4">>), JsNumber, JsUndefined} }

\* the arguments conform to the declaration of the tool (route.ts:81-152)
WellFormed(name, a) ==
    /\ a.present
    /\ CASE name = "getChart" ->
                /\ a.type.t = "string" /\ a.type.v \in ChartTypes
                /\ a.data.t = "numbers"
                /\ a.labels.t = "strings"
          [] name = "generateMermaid" ->
                /\ a.code.t = "string"
                /\ a.type.t = "string" /\ a.type.v \in DiagramTypes
          [] name = "generateQuiz" ->
                /\ a.type.t = "string" /\ a.type.v \in QuizTypes
                /\ a.question.t = "string"
                /\ a.options.t \in {"strings", "undefined"}
                /\ a.correctAnswer.t = "string"

IdleSlots == {c \in Callers : ex[c].pc = "idle"}

\* the invocation of executePythonCode the handler awaits has settled
Settled(c) == c \in Callers /\ ex[c].pc \in {"returned", "thrown"}

(***************************************************************************)
(* The /execute handler (src/components/PythonExecutor.tsx:51-69)          *)
(***************************************************************************)
ExecuteReceive ==
    /\ pc = "idle"
    /\ kind' = "execute"
    /\ \/ /\ pc' = "done"
          /\ http' = Http(405, "message", FRText(<<"Method not allowed">>), FRAbsent)
          /\ UNCHANGED <<ex, slot>>
       \/ \E c \in IdleSlots, n \in Names, code \in Snippets, hasCode \in BOOLEAN :
            /\ ex' = [ex EXCEPT ![c] = CallExecutePythonCode(hasCode, code, n)]
            /\ slot' = c
            /\ pc' = "awaitExec"
            /\ http' = http
    /\ UNCHANGED <<files, children, parts, idx, functionResponse, finalResponse,
                   modelCalls, dispatched, valVars>>

\* a handler that does not look at result.error
ExecuteResponseOutputOnly(c) ==
    IF ex[c].pc = "thrown"
    THEN Http(500, "error", FRText(<<"Failed to execute code">>), FRAbsent)
    ELSE Http(200, "output", OutputOf(ex[c].result), FRAbsent)

\* lines 58-68
ExecuteResponse(c) ==
    IF ex[c].pc = "thrown"
    THEN Http(500, "error", FRText(<<"Failed to execute code">>), FRAbsent)
    ELSE IF Truthy(ErrorOf(ex[c].result))
    THEN Http(400, "error", ErrorOf(ex[c].result), FRAbsent)
    ELSE Http(200, "output", OutputOf(ex[c].result), FRAbsent)

ExecuteRespond ==
    /\ kind = "execute"
    /\ pc = "awaitExec"
    /\ Settled(slot)
    /\ http' = ExecuteResponse(slot)
    /\ ex' = [ex EXCEPT ![slot] = IdleExec]
    /\ pc' = "done"
    /\ UNCHANGED <<files, children, kind, slot, parts, idx, functionResponse, finalResponse,
                   modelCalls, dispatched, valVars>>

(***************************************************************************)
(* The /chat route (src/app/api/chat/route.ts:188-311)                     *)
(***************************************************************************)
GenericError == Http(500, "error", FRText(<<"Failed to process request">>), FRAbsent)

FollowupError ==
    Http(500, "error", FRText(<<"Error processing function response">>), FRAbsent)

\* lines 190-206: the body is read and the user message is sent; a malformed
\* body throws into the catch of line 307
ChatReceive ==
    /\ pc = "idle"
    /\ kind' = "chat"
    /\ \/ pc' = "sendMessage" /\ http' = http
       \/ pc' = "done" /\ http' = GenericError
    /\ UNCHANGED <<execVars, parts, idx, functionResponse, finalResponse, modelCalls,
                   dispatched, slot, valVars>>

\* line 206: the first model response arrives, or the call throws
ChatFirstResponse ==
    /\ kind = "chat"
    /\ pc = "sendMessage"
    /\ \/ \E ps \in Responses :
            /\ modelCalls' = Append(modelCalls, UserCall)
            /\ parts' = ps
            /\ idx' = 1
            /\ pc' = "loop"
            /\ http' = http
       \/ /\ modelCalls' = Append(modelCalls, [UserCall EXCEPT !.failed = TRUE])
          /\ pc' = "done"
          /\ http' = GenericError
          /\ UNCHANGED <<parts, idx>>
    /\ UNCHANGED <<execVars, kind, functionResponse, finalResponse, dispatched, slot, valVars>>

\* line 213: a part that is no function call is passed over
ChatSkipPart ==
    /\ kind = "chat"
    /\ pc = "loop"
    /\ idx <= Len(parts)
    /\ ~parts[idx].isCall
    /\ idx' = idx + 1
    /\ UNCHANGED <<execVars, kind, pc, parts, functionResponse, finalResponse, http,
                   modelCalls, dispatched, slot, valVars>>

\* Lines 268-279 for the functionResponse fr of the current part: a truthy one
\* is sent to the model, anything else lets the loop go on.
ChatAfterDispatch(fr) ==
    /\ functionResponse' = fr
    /\ IF Truthy(fr)
       THEN /\ modelCalls' = Append(modelCalls,
                                    FunctionResponseCall(parts[idx].name, fr, idx))
            /\ pc' = "awaitFollowup"
            /\ idx' = idx
       ELSE /\ modelCalls' = modelCalls
            /\ pc' = "loop"
            /\ idx' = idx + 1

\* a dispatch that goes on without awaiting executePythonCode
ChatDispatchRunPythonNoAwait ==
    /\ kind = "chat"
    /\ pc = "loop"
    /\ idx <= Len(parts)
    /\ parts[idx].isCall
    /\ parts[idx].name = "runPython"
    /\ \E c \in IdleSlots, n \in Names :
        /\ ex' = [ex EXCEPT ![c] = CallExecutePythonCode(parts[idx].hasCode,
                                                         parts[idx].code, n)]
        /\ slot' = c
    /\ dispatched' = Append(dispatched, idx)
    /\ functionResponse' = FRUndefined
    /\ idx' = idx + 1
    /\ UNCHANGED <<files, children, kind, pc, parts, finalResponse, http,
                   modelCalls, valVars>>

\* lines 220-223: executePythonCode is called and awaited
ChatDispatchRunPython ==
    /\ kind = "chat"
    /\ pc = "loop"
    /\ idx <= Len(parts)
    /\ parts[idx].isCall
    /\ parts[idx].name = "runPython"
    /\ \E c \in IdleSlots, n \in Names :
        /\ ex' = [ex EXCEPT ![c] = CallExecutePythonCode(parts[idx].hasCode,
                                                         parts[idx].code, n)]
        /\ slot' = c
    /\ dispatched' = Append(dispatched, idx)
    /\ pc' = "awaitExec"
    /\ UNCHANGED <<files, children, kind, parts, idx, functionResponse, finalResponse, http,
                   modelCalls, valVars>>

\* a runPython case that forwards data.output alone and lets an exception through
RunPythonResponseOutputOnly(c) ==
    IF ex[c].pc = "thrown" THEN FRUndefined ELSE OutputOf(ex[c].result)

\* lines 224-228: what the runPython case makes of the settled invocation
RunPythonResponse(c) ==
    IF ex[c].pc = "thrown"
    THEN FRText(<<"Error executing Python code.">>)
    ELSE OrElse(OutputOf(ex[c].result), ErrorOf(ex[c].result))

\* a runPython case that forwards what the child has written so far
ChatAfterRunPythonStreaming ==
    /\ kind = "chat"
    /\ pc = "awaitExec"
    /\ slot \in Callers
    /\ ex[slot].pc \in {"running", "returned", "thrown"}
    /\ ChatAfterDispatch(IF Settled(slot) THEN RunPythonResponse(slot)
                         ELSE FRText(<<"partial output">>))
    /\ ex' = [ex EXCEPT ![slot] = IdleExec]
    /\ UNCHANGED <<files, children, kind, parts, finalResponse, http, dispatched, slot,
                   valVars>>

\* lines 224-229, then 268-279
ChatAfterRunPython ==
    /\ kind = "chat"
    /\ pc = "awaitExec"
    /\ Settled(slot)
    /\ ChatAfterDispatch(RunPythonResponse(slot))
    /\ ex' = [ex EXCEPT ![slot] = IdleExec]
    /\ UNCHANGED <<files, children, kind, parts, finalResponse, http, dispatched, slot,
                   valVars>>

\* lines 230-261: the chart, diagram and quiz tools answer with an object
PureToolResponse(name) ==
    CASE name = "getChart" -> FRObject("chart")
      [] name = "generateMermaid" -> FRObject("mermaid")
      [] name = "generateQuiz" -> FRObject("quiz")

ChatDispatchPureTool ==
    /\ kind = "chat"
    /\ pc = "loop"
    /\ idx <= Len(parts)
    /\ parts[idx].isCall
    /\ parts[idx].name \in {"getChart", "generateMermaid", "generateQuiz"}
    /\ dispatched' = Append(dispatched, idx)
    /\ ChatAfterDispatch(PureToolResponse(parts[idx].name))
    /\ UNCHANGED <<execVars, kind, parts, finalResponse, http, slot, valVars>>

\* a default case that answers the model with an error text
ChatDispatchUnknownAnswered ==
    /\ kind = "chat"
    /\ pc = "loop"
    /\ idx <= Len(parts)
    /\ parts[idx].isCall
    /\ parts[idx].name \notin RegisteredTools
    /\ ChatAfterDispatch(FRText(<<"Unknown function">>))
    /\ UNCHANGED <<execVars, kind, parts, finalResponse, http, dispatched, slot, valVars>>

\* lines 262-265: the default case
ChatDispatchUnknown ==
    /\ kind = "chat"
    /\ pc = "loop"
    /\ idx <= Len(parts)
    /\ parts[idx].isCall
    /\ parts[idx].name \notin RegisteredTools
    /\ ChatAfterDispatch(FRNull)
    /\ UNCHANGED <<execVars, kind, parts, finalResponse, http, dispatched, slot, valVars>>

\* a route that keeps the first finalResponse it has built
ChatFollowupOkKeepsFirst ==
    /\ kind = "chat"
    /\ pc = "awaitFollowup"
    /\ finalResponse' = IF finalResponse.set THEN finalResponse
                        ELSE [set |-> TRUE, response |-> ReplyText(Len(modelCalls)),
                              functionOutput |-> functionResponse]
    /\ idx' = idx + 1
    /\ pc' = "loop"
    /\ UNCHANGED <<execVars, kind, parts, functionResponse, http, modelCalls, dispatched,
                   slot, valVars>>

\* lines 281-284: the model answers the function response
ChatFollowupOk ==
    /\ kind = "chat"
    /\ pc = "awaitFollowup"
    /\ finalResponse' = [set |-> TRUE, response |-> ReplyText(Len(modelCalls)),
                         functionOutput |-> functionResponse]
    /\ idx' = idx + 1
    /\ pc' = "loop"
    /\ UNCHANGED <<execVars, kind, parts, functionResponse, http, modelCalls, dispatched,
                   slot, valVars>>

\* a failed follow-up call that is logged and lets the loop go on
ChatFollowupFailContinues ==
    /\ kind = "chat"
    /\ pc = "awaitFollowup"
    /\ modelCalls' = [modelCalls EXCEPT ![Len(modelCalls)].failed = TRUE]
    /\ idx' = idx + 1
    /\ pc' = "loop"
    /\ UNCHANGED <<execVars, kind, parts, functionResponse, finalResponse, http, dispatched,
                   slot, valVars>>

\* lines 285-288: the follow-up call throws
ChatFollowupFail ==
    /\ kind = "chat"
    /\ pc = "awaitFollowup"
    /\ modelCalls' = [modelCalls EXCEPT ![Len(modelCalls)].failed = TRUE]
    /\ http' = FollowupError
    /\ pc' = "done"
    /\ UNCHANGED <<execVars, kind, parts, idx, functionResponse, finalResponse, dispatched,
                   slot, valVars>>

\* a route that answers 204 without a body when no tool result was fed back
ChatRespondNoContent ==
    /\ kind = "chat"
    /\ pc = "loop"
    /\ idx > Len(parts)
    /\ http' = IF finalResponse.set
               THEN Http(200, "response", FRText(finalResponse.response),
                         finalResponse.functionOutput)
               ELSE Http(204, "none", FRAbsent, FRAbsent)
    /\ pc' = "done"
    /\ UNCHANGED <<execVars, kind, parts, idx, functionResponse, finalResponse, modelCalls,
                   dispatched, slot, valVars>>

\* lines 295-305
ChatRespond ==
    /\ kind = "chat"
    /\ pc = "loop"
    /\ idx > Len(parts)
    /\ http' = IF finalResponse.set
               THEN Http(200, "response", FRText(finalResponse.response),
                         finalResponse.functionOutput)
               ELSE Http(200, "response", FRText(FirstText), FRAbsent)
    /\ pc' = "done"
    /\ UNCHANGED <<execVars, kind, parts, idx, functionResponse, finalResponse, modelCalls,
                   dispatched, slot, valVars>>

\* an object payload built from the arguments a
FRPayload(k, a) == [type |-> k, text |-> <<>>, value |-> a]

\* a generateMermaid case that puts 'flowchart TD' and a newline before the
\* diagram text, whatever the text starts with
ToolResponsePrepending(name, a) ==
    CASE name = "getChart" ->
            IF ~a.present THEN FRText(<<"Error generating chart.">>)
            ELSE FRPayload("chart", [EmptyArgs EXCEPT !.type = a.type, !.data = a.data,
                                                      !.labels = a.labels])
      [] name = "generateMermaid" ->
            IF ~a.present THEN FRText(<<"Error generating Mermaid diagram.">>)
            ELSE FRPayload("mermaid",
                           [EmptyArgs EXCEPT !.code =
                                [a.code EXCEPT !.v = SubSeq(D_flowchart, 1, 13) \o a.code.v]])
      [] name = "generateQuiz" ->
            FRPayload("quiz", a)

\* Lines 230-261 for the arguments a: the object the getChart, generateMermaid
\* and generateQuiz cases build (getChart of chartUtils.ts copies type, data and
\* labels into the configuration), or the text of the catch clause when
\* reading a property of absent arguments throws.
ToolResponse(name, a) ==
    CASE name = "getChart" ->
            IF ~a.present THEN FRText(<<"Error generating chart.">>)
            ELSE FRPayload("chart", [EmptyArgs EXCEPT !.type = a.type, !.data = a.data,
                                                      !.labels = a.labels])
      [] name = "generateMermaid" ->
            IF ~a.present THEN FRText(<<"Error generating Mermaid diagram.">>)
            ELSE FRPayload("mermaid", [EmptyArgs EXCEPT !.code = a.code])
      [] name = "generateQuiz" ->
            FRPayload("quiz", a)

\* line 206: the first model response is one call of a chart, diagram or quiz tool
ChatFirstResponseToolCall ==
    /\ kind = "chat"
    /\ pc = "sendMessage"
    /\ \E name \in {"getChart", "generateMermaid", "generateQuiz"} :
        /\ parts' = <<CallPart(name)>>
        /\ \E a \in ArgSets(name) : args' = a
    /\ modelCalls' = Append(modelCalls, UserCall)
    /\ idx' = 1
    /\ pc' = "loop"
    /\ UNCHANGED <<execVars, kind, functionResponse, finalResponse, http, dispatched, slot,
                   vsnippet, vimports, vlines, vpc, verdict, page>>

\* lines 230-261, then 268-279, with the arguments of the call
ChatDispatchToolCall ==
    /\ kind = "chat"
    /\ pc = "loop"
    /\ idx <= Len(parts)
    /\ parts[idx].isCall
    /\ parts[idx].name \in {"getChart", "generateMermaid", "generateQuiz"}
    /\ dispatched' = Append(dispatched, idx)
    /\ ChatAfterDispatch(ToolResponse(parts[idx].name, args))
    /\ UNCHANGED <<execVars, kind, parts, finalResponse, http, slot, valVars>>

(***************************************************************************)
(* The single-tool-call variant (src/app/api/handler.ts:77-138)            *)
(***************************************************************************)
SystemCall == [type |-> "system", name |-> "", content |-> FRAbsent, part |-> 0, failed |-> FALSE]

\* `${v}` of a template literal
TemplateText(v) == IF v.type = "text" THEN v.text ELSE <<"undefined">>

\* lines 79-86: the body is read and the system prompt is sent
HandlerReceive ==
    /\ pc = "idle"
    /\ kind' = "handler"
    /\ \/ /\ pc' = "sendMessage"
          /\ modelCalls' = Append(modelCalls, SystemCall)
          /\ http' = http
       \/ /\ pc' = "done"
          /\ http' = GenericError
          /\ modelCalls' = modelCalls
    /\ UNCHANGED <<execVars, parts, idx, functionResponse, finalResponse, dispatched, slot,
                   valVars>>

\* line 89
HandlerFirstResponse ==
    /\ kind = "handler"
    /\ pc = "sendMessage"
    /\ \/ \E ps \in Responses :
            /\ modelCalls' = Append(modelCalls, UserCall)
            /\ parts' = ps
            /\ idx' = 1
            /\ pc' = "loop"
            /\ http' = http
       \/ /\ modelCalls' = Append(modelCalls, [UserCall EXCEPT !.failed = TRUE])
          /\ pc' = "done"
          /\ http' = GenericError
          /\ UNCHANGED <<parts, idx>>
    /\ UNCHANGED <<execVars, kind, functionResponse, finalResponse, dispatched, slot, valVars>>

\* lines 93-129: a part that is neither a runPython nor a getChart call is passed over
HandlerSkipPart ==
    /\ kind = "handler"
    /\ pc = "loop"
    /\ idx <= Len(parts)
    /\ ~(parts[idx].isCall /\ parts[idx].name \in {"runPython", "getChart"})
    /\ idx' = idx + 1
    /\ UNCHANGED <<execVars, kind, pc, parts, functionResponse, finalResponse, http,
                   modelCalls, dispatched, slot, valVars>>

\* lines 103-106
HandlerDispatchRunPython ==
    /\ kind = "handler"
    /\ pc = "loop"
    /\ idx <= Len(parts)
    /\ parts[idx].isCall
    /\ parts[idx].name = "runPython"
    /\ \E c \in IdleSlots, n \in Names :
        /\ ex' = [ex EXCEPT ![c] = CallExecutePythonCode(parts[idx].hasCode,
                                                         parts[idx].code, n)]
        /\ slot' = c
    /\ dispatched' = Append(dispatched, idx)
    /\ pc' = "awaitExec"
    /\ UNCHANGED <<files, children, kind, parts, idx, functionResponse, finalResponse, http,
                   modelCalls, valVars>>

\* lines 108-116
HandlerRunPythonResponse(c) ==
    IF ex[c].pc = "thrown"
    THEN Http(500, "response", FRText(<<"Error executing Python code.">>), FRAbsent)
    ELSE IF Truthy(OutputOf(ex[c].result))
    THEN Http(200, "response", OutputOf(ex[c].result), FRAbsent)
    ELSE Http(400, "response",
              FRText(<<"Error: ">> \o TemplateText(ErrorOf(ex[c].result))), FRAbsent)

HandlerAfterRunPython ==
    /\ kind = "handler"
    /\ pc = "awaitExec"
    /\ Settled(slot)
    /\ http' = HandlerRunPythonResponse(slot)
    /\ ex' = [ex EXCEPT ![slot] = IdleExec]
    /\ pc' = "done"
    /\ UNCHANGED <<files, children, kind, parts, idx, functionResponse, finalResponse,
                   modelCalls, dispatched, slot, valVars>>

\* lines 119-123
HandlerDispatchGetChart ==
    /\ kind = "handler"
    /\ pc = "loop"
    /\ idx <= Len(parts)
    /\ parts[idx].isCall
    /\ parts[idx].name = "getChart"
    /\ dispatched' = Append(dispatched, idx)
    /\ http' = Http(200, "response", FRObject("chart"), FRAbsent)
    /\ pc' = "done"
    /\ UNCHANGED <<execVars, kind, parts, idx, functionResponse, finalResponse, modelCalls,
                   slot, valVars>>

\* line 133
HandlerRespond ==
    /\ kind = "handler"
    /\ pc = "loop"
    /\ idx > Len(parts)
    /\ http' = Http(200, "response", FRText(FirstText), FRAbsent)
    /\ pc' = "done"
    /\ UNCHANGED <<execVars, kind, parts, idx, functionResponse, finalResponse, modelCalls,
                   dispatched, slot, valVars>>

(***************************************************************************)
(* The chat page (src/app/page.tsx): Home                                  *)
(***************************************************************************)
\* lines 69-74: the state of the component after its first render; messages are
\* told apart by the request that created them
InitialPage ==
    [messages |-> <<>>, isGenerating |-> FALSE, isLoading |-> FALSE, input |-> "",
     quizAnswer |-> "", pending |-> {}, requests |-> 0]

Message(role, req, quiz) == [role |-> role, req |-> req, quiz |-> quiz]

\* a fetch of /api/chat in flight, with the handler that awaits it and the
\* number of messages there were when it was sent
Request(handler, req, last) == [handler |-> handler, req |-> req, last |-> last]

\* Lines 261-265 and 312: a message with functionOutput.quiz renders the quiz
\* form, and the effect of MessageContent sets activeQuiz on every render.
QuizRendered == \E i \in DOMAIN page.messages : page.messages[i].quiz

\* lines 353-366: the Refresh icon is on the last message when it is from the
\* assistant and isGenerating is false
RefreshShown ==
    /\ page.messages # <<>>
    /\ page.messages[Len(page.messages)].role = "assistant"
    /\ ~page.isGenerating

\* lines 85-87: the user edits the input
handleInputChange ==
    /\ \E text \in {"", " ", "2 + 2"} \ {page.input} :
        page' = [page EXCEPT !.input = text]
    /\ UNCHANGED <<execVars, reqVars, vsnippet, vimports, vlines, vpc, verdict, args>>

\* lines 232, 241-246: the user edits the quiz answer
setQuizAnswer ==
    /\ QuizRendered
    /\ \E text \in {"", "4"} \ {page.quizAnswer} :
        page' = [page EXCEPT !.quizAnswer = text]
    /\ UNCHANGED <<execVars, reqVars, vsnippet, vimports, vlines, vpc, verdict, args>>

\* Lines 89-106, up to the await: the form is submitted with the Send button,
\* which is disabled when input is empty or isLoading is set (line 407); the
\* Enter key (lines 162-169) asks for isGenerating to be false as well.
onSubmit ==
    /\ page.requests < MaxRequests
    /\ page.input # ""
    /\ ~page.isLoading
    /\ page' = IF page.input = " " THEN page
               ELSE [page EXCEPT
                        !.isGenerating = TRUE,
                        !.isLoading = TRUE,
                        !.messages = Append(@, Message("user", page.requests + 1, FALSE)),
                        !.input = "",
                        !.requests = @ + 1,
                        !.pending = @ \cup {Request("onSubmit", page.requests + 1,
                                                    Len(page.messages) + 1)}]
    /\ UNCHANGED <<execVars, reqVars, vsnippet, vimports, vlines, vpc, verdict, args>>

\* lines 107-125: the response arrives, or the fetch fails and the error
\* message is appended
onSubmitSettled ==
    /\ \E r \in page.pending :
        /\ r.handler = "onSubmit"
        /\ \E quiz \in BOOLEAN :
            page' = [page EXCEPT
                        !.messages = Append(@, Message("assistant", r.req, quiz)),
                        !.isGenerating = FALSE,
                        !.isLoading = FALSE,
                        !.pending = @ \ {r}]
    /\ UNCHANGED <<execVars, reqVars, vsnippet, vimports, vlines, vpc, verdict, args>>

\* lines 172-175 and 128-140, up to the await: Refresh is pressed
reload ==
    /\ page.requests < MaxRequests
    /\ RefreshShown
    /\ page' = [page EXCEPT
                    !.isGenerating = TRUE,
                    !.requests = @ + 1,
                    !.pending = @ \cup {Request("reload", page.requests + 1,
                                                Len(page.messages))}]
    /\ UNCHANGED <<execVars, reqVars, vsnippet, vimports, vlines, vpc, verdict, args>>

\* lines 141-159 and 176-178: the response replaces the last message of the
\* list as it is now; a failed fetch is only logged
reloadSettled ==
    /\ \E r \in page.pending :
        /\ r.handler = "reload"
        /\ \E ok \in BOOLEAN :
            page' = [page EXCEPT
                        !.messages = IF ok
                                     THEN [@ EXCEPT ![Len(@)] =
                                                Message("assistant", r.req, FALSE)]
                                     ELSE @,
                        !.isGenerating = FALSE,
                        !.pending = @ \ {r}]
    /\ UNCHANGED <<execVars, reqVars, vsnippet, vimports, vlines, vpc, verdict, args>>

\* Lines 189-206, up to the await: Submit Answer is pressed; the button is
\* disabled only when quizAnswer is empty (line 252).
handleQuizSubmit ==
    /\ page.requests < MaxRequests
    /\ QuizRendered
    /\ page.quizAnswer # ""
    /\ page' = [page EXCEPT
                    !.messages = Append(@, Message("user", page.requests + 1, FALSE)),
                    !.isGenerating = TRUE,
                    !.requests = @ + 1,
                    !.pending = @ \cup {Request("handleQuizSubmit", page.requests + 1,
                                                Len(page.messages) + 1)}]
    /\ UNCHANGED <<execVars, reqVars, vsnippet, vimports, vlines, vpc, verdict, args>>

\* lines 207-222: the response is appended, or the failed fetch is only logged
handleQuizSubmitSettled ==
    /\ \E r \in page.pending :
        /\ r.handler = "handleQuizSubmit"
        /\ \E ok \in BOOLEAN, quiz \in BOOLEAN :
            /\ ~ok => ~quiz
            /\ page' = [page EXCEPT
                            !.messages = IF ok
                                         THEN Append(@, Message("assistant", r.req, quiz))
                                         ELSE @,
                            !.isGenerating = FALSE,
                            !.quizAnswer = "",
                            !.pending = @ \ {r}]
    /\ UNCHANGED <<execVars, reqVars, vsnippet, vimports, vlines, vpc, verdict, args>>

(***************************************************************************)
(* Runs of validatePythonCode on generated snippets                        *)
(***************************************************************************)
Stmt(text, modules) == [text |-> text, imports |-> modules]

\* statements without an import
PlainStatements ==
    { Stmt(S_print, {}),
      Stmt(S_sqrt16, {}),
      Stmt(S_assign, {}),
      Stmt(<<"o", "s", ".", "s", "y", "s", "t", "e", "m", "(", "'", "l", "s", "'", ")">>, {}) }

\* import a[, b] with a blank or a tab after the keyword
ImportStatements ==
    { Stmt(W_import \o ws \o m.text, m.imports) :
        ws \in { <<" ">>, <<"\t">> },
        m \in { Stmt(W_math, {W_math}),
                Stmt(W_socket, {W_socket}),
                Stmt(W_math \o <<",", " ">> \o W_socket, {W_math, W_socket}),
                Stmt(W_math \o <<",">> \o W_random, {W_math, W_random}) } }

\* from m import x, from m import *, from m import (x), with and without blanks
FromStatements ==
    { Stmt(W_from \o <<" ">> \o m \o <<" ">> \o W_import \o what, {m}) :
        m \in {W_math, W_socket},
        what \in { <<" ">> \o W_sqrt, <<" ", "*">>, <<"*">>, <<" ", " ", "*">>,
                   <<"(">> \o W_sqrt \o <<")">> } }

\* statements that hold a deny-listed substring in a comment, in a string
\* literal and inside an identifier
DeniedStatements ==
    { Stmt(<<"#", " ", "p", "r", "o", "f", "i", "l", "e">>, {}),
      Stmt(<<"p", "r", "i", "n", "t", "(", "'", "o", "p", "e", "n", "'", ")">>, {}),
      Stmt(<<"e", "v", "a", "l", "u", "a", "t", "e", " ", "=", " ", "1">>, {}) }

Statements ==
    PlainStatements \cup ImportStatements \cup FromStatements \cup DeniedStatements

\* one more statement, on a line of its own
AppendStatement ==
    /\ vpc = "input"
    /\ vlines < MaxLines
    /\ \E st \in Statements :
        /\ vsnippet' = IF vlines = 0 THEN st.text ELSE vsnippet \o NL \o st.text
        /\ vimports' = vimports \cup st.imports
    /\ vlines' = vlines + 1
    /\ UNCHANGED <<execVars, reqVars, vpc, verdict, args, page>>

RunValidate ==
    /\ vpc = "input"
    /\ verdict' = validatePythonCode(vsnippet)
    /\ vpc' = "validated"
    /\ UNCHANGED <<execVars, reqVars, vsnippet, vimports, vlines, args, page>>

(***************************************************************************)
(* Specifications                                                          *)
(***************************************************************************)
Init ==
    /\ ex = [c \in Callers |-> IdleExec]
    /\ files = {}
    /\ children = {}
    /\ kind = "none"
    /\ pc = "idle"
    /\ parts = <<>>
    /\ idx = 0
    /\ functionResponse = FRNull
    /\ finalResponse = NoFinal
    /\ http = NoHttp
    /\ modelCalls = <<>>
    /\ dispatched = <<>>
    /\ slot = "none"
    /\ vsnippet = <<>>
    /\ vimports = {}
    /\ vlines = 0
    /\ vpc = "input"
    /\ verdict = FALSE
    /\ args = NoArgs
    /\ page = InitialPage

\* one request, served by one of the three endpoints
Next ==
    \/ ExecuteReceive
    \/ ExecuteRespond
    \/ ChatReceive
    \/ ChatFirstResponse
    \/ ChatSkipPart
    \/ ChatDispatchRunPython
    \/ ChatAfterRunPython
    \/ ChatDispatchPureTool
    \/ ChatDispatchUnknown
    \/ ChatFollowupOk
    \/ ChatFollowupFail
    \/ ChatRespond
    \/ HandlerReceive
    \/ HandlerFirstResponse
    \/ HandlerSkipPart
    \/ HandlerDispatchRunPython
    \/ HandlerAfterRunPython
    \/ HandlerDispatchGetChart
    \/ HandlerRespond
    \/ \E c \in Callers : ExecStep(c)

Spec == Init /\ [][Next]_vars

\* validatePythonCode applied to every snippet of at most MaxLines statements
NextValidate ==
    \/ AppendStatement
    \/ RunValidate

SpecValidate == Init /\ [][NextValidate]_vars

\* a request handler calls executePythonCode while other invocations may be
\* in progress (concurrent requests of the server)
ConcurrentCall(c) ==
    /\ ex[c].pc = "idle"
    /\ \E n \in Names, code \in Snippets, hasCode \in BOOLEAN :
        ex' = [ex EXCEPT ![c] = CallExecutePythonCode(hasCode, code, n)]
    /\ UNCHANGED <<files, children, reqVars, valVars>>

\* one invocation per caller, their steps interleaved in every order
NextConcurrent ==
    \/ \E c \in Callers : ConcurrentCall(c)
    \/ \E c \in Callers : ExecStep(c)

SpecConcurrent == Init /\ [][NextConcurrent]_vars

\* one /chat request whose model response is one chart, diagram or quiz call
NextTools ==
    \/ ChatReceive
    \/ ChatFirstResponseToolCall
    \/ ChatDispatchToolCall
    \/ ChatFollowupOk
    \/ ChatFollowupFail
    \/ ChatRespond

SpecTools == Init /\ [][NextTools]_vars

\* the chat page under every order of the user's actions and of the responses
NextPage ==
    \/ handleInputChange
    \/ setQuizAnswer
    \/ onSubmit
    \/ onSubmitSettled
    \/ reload
    \/ reloadSettled
    \/ handleQuizSubmit
    \/ handleQuizSubmitSettled

SpecPage == Init /\ [][NextPage]_vars

(***************************************************************************)
(* Properties                                                              *)
(***************************************************************************)
IsRegisteredCall(j) == parts[j].isCall /\ parts[j].name \in RegisteredTools

IsUnknownCall(j) == parts[j].isCall /\ parts[j].name \notin RegisteredTools

\* the sendMessage calls that carry a function response
Followups == {k \in DOMAIN modelCalls : modelCalls[k].type = "functionResponse"}

\* the invocation of executePythonCode by caller c is past its validation
PastValidation(c) ==
    \/ ex[c].pc \in {"writeFile", "running", "afterChild", "unlink"}
    \/ ex[c].wrote
    \/ ex[c].unlinkAttempts > 0
    \/ ex[c].child.kind # "none"
    \/ c \in children

\* the texts validatePythonCode accepts among the snippets and the empty text
AcceptedTexts == {code \in Snippets \cup {<<>>} : validatePythonCode(code)}

\* C1: an invocation of executePythonCode writes its temp file and launches its
\* child only for a snippet validatePythonCode accepted, whoever the caller is;
\* for a rejected snippet it returns {error: 'Invalid or unauthorized Python
\* code'} with no file written, no child launched and no unlink attempted;
\* every file of the temp directory holds an accepted text.
ValidationGate ==
    /\ \A c \in Callers :
        /\ PastValidation(c) => ex[c].hasCode /\ ex[c].validated
        /\ (ex[c].pc = "returned" /\ ~ex[c].validated) =>
              /\ ex[c].result = ResultError(MsgInvalid)
              /\ ~PastValidation(c)
    /\ \A f \in files : f[2] \in AcceptedTexts

\* a rejected snippet has come back to the /chat route
RejectedSnippetReturned ==
    /\ kind = "chat"
    /\ pc = "awaitExec"
    /\ Settled(slot)
    /\ ex[slot].hasCode
    /\ ~validatePythonCode(ex[slot].code)
    /\ ex[slot].result = ResultError(MsgInvalid)

\* C2 as claimed: once an invocation that created its artifact has returned, the
\* artifact has been deleted, exactly once, and no longer exists.
ArtifactGoneOnReturn ==
    \A c \in Callers :
        (ex[c].pc = "returned" /\ ex[c].wrote) =>
            /\ ex[c].unlinkAttempts = 1
            /\ ex[c].unlinkOk
            /\ ~FileExists(ex[c].tempFileName)

\* C2 as amended: on every exit path after validation exactly one unlink of the
\* artifact is attempted before the invocation returns, and none before it
\* reaches its finally block; when that unlink succeeds the artifact no longer
\* exists once the invocation has returned.
UnlinkAttemptedOnceBeforeReturn ==
    \A c \in Callers :
        /\ (ex[c].pc = "returned" /\ ex[c].validated) =>
              /\ ex[c].unlinkAttempts = 1
              /\ ex[c].unlinkOk => ~FileExists(ex[c].tempFileName)
        /\ ex[c].pc \in {"writeFile", "running", "afterChild", "unlink"} =>
              ex[c].unlinkAttempts = 0

\* an invocation whose child was killed on timeout has returned with its artifact deleted
ArtifactDeletedAfterTimeout ==
    \E c \in Callers :
        /\ ex[c].pc = "returned"
        /\ ex[c].wrote
        /\ ex[c].child.kind = "timeout"
        /\ ex[c].unlinkOk
        /\ ~FileExists(ex[c].tempFileName)

\* C3: in a /chat request no function-response call is made to the model before
\* every registered tool invocation of the response has been dispatched, and the
\* results go back in a single follow-up call.
FollowupAfterAllDispatched ==
    kind = "chat" =>
        /\ Followups # {} =>
              \A j \in DOMAIN parts : IsRegisteredCall(j) => j \in Range(dispatched)
        /\ Cardinality(Followups) <= 1

EveryResultFedBack ==
    kind = "chat" =>
        \A j \in DOMAIN parts :
            (j < idx /\ IsRegisteredCall(j)) =>
                \E k \in Followups : modelCalls[k].part = j

\* C6: in a /chat request no handler runs and no function response is sent for
\* an unknown tool name; a response whose invocations all have unknown names
\* ends with HTTP 200, the text of the first model response, no functionOutput
\* and no follow-up call.
UnknownToolDropped ==
    kind = "chat" =>
        /\ \A j \in Range(dispatched) : IsRegisteredCall(j)
        /\ \A k \in Followups :
              /\ IsRegisteredCall(modelCalls[k].part)
              /\ modelCalls[k].name = parts[modelCalls[k].part].name
        /\ ( /\ \E j \in DOMAIN parts : IsUnknownCall(j)
             /\ \A j \in DOMAIN parts : ~IsRegisteredCall(j) ) =>
              /\ Followups = {}
              /\ dispatched = <<>>
              /\ pc = "done" => http = Http(200, "response", FRText(FirstText), FRAbsent)

\* a request whose only invocation has an unknown name has been answered
UnknownOnlyAnswered ==
    /\ kind = "chat"
    /\ pc = "done"
    /\ Len(parts) = 2
    /\ IsUnknownCall(1)
    /\ ~parts[2].isCall
    /\ http.status = 200

\* C7: once a follow-up call of a /chat request has failed, the request has ended
\* with HTTP 500 and the generic follow-up error; the failed call is the last
\* call made to the model, and the invocation it answered is the last one
\* dispatched.
FollowupFailureEndsRequest ==
    kind = "chat" =>
        \A k \in Followups :
            modelCalls[k].failed =>
                /\ pc = "done"
                /\ http = FollowupError
                /\ k = Len(modelCalls)
                /\ \A m \in Followups : m # k => modelCalls[m].part # modelCalls[k].part
                /\ dispatched[Len(dispatched)] = modelCalls[k].part
                /\ \A c \in Callers : ex[c].pc = "idle"

\* the follow-up of the first of two registered invocations has failed
FirstFollowupFailed ==
    /\ kind = "chat"
    /\ Len(parts) = 2
    /\ IsRegisteredCall(1)
    /\ IsRegisteredCall(2)
    /\ \E k \in Followups : modelCalls[k].failed /\ modelCalls[k].part = 1

\* the invocation the /chat route awaits has failed: it threw or returned an error
ExecutorFailed ==
    /\ kind = "chat"
    /\ pc = "awaitExec"
    /\ Settled(slot)
    /\ ex[slot].pc = "thrown" \/ ex[slot].result.hasError

\* the text a failed invocation is reported with
FailureText ==
    IF ex[slot].pc = "thrown" THEN <<"Error executing Python code.">>
    ELSE ex[slot].result.error

\* C8: when the invocation of executePythonCode of a runPython call has failed
\* (rejection, runtime error, timeout, launch or I/O error, or an exception),
\* the next step of the /chat route sends the failure text to the model as the
\* function response of that call and sends no HTTP response; and the generic
\* HTTP 500 'Failed to process request' is only ever sent before any dispatch.
SandboxFailureBecomesText ==
    /\ [][ExecutorFailed =>
            /\ FailureText # <<>>
            /\ pc' = "awaitFollowup"
            /\ modelCalls' = Append(modelCalls,
                    FunctionResponseCall("runPython", FRText(FailureText), idx))
            /\ http' = NoHttp]_vars
    /\ [](kind = "chat" /\ http = GenericError => dispatched = <<>>)

\* the exception of an invocation without code has been sent to the model as text
ExceptionSentAsText ==
    /\ kind = "chat"
    /\ pc = "awaitFollowup"
    /\ parts[idx].name = "runPython"
    /\ ~parts[idx].hasCode
    /\ modelCalls[Len(modelCalls)].content = FRText(<<"Error executing Python code.">>)

\* C9: validatePythonCode returns true for every snippet without a deny-listed
\* substring whose import statements name only modules of the allow-set.
AcceptsAllowedImports ==
    (vpc = "validated" /\ vimports \subseteq ALLOWED_MODULES /\ ~BlacklistHit(vsnippet))
        => verdict = TRUE

\* C10: validatePythonCode returns false for every snippet with an import
\* statement that names a module outside the allow-set.
RejectsDisallowedImports ==
    (vpc = "validated" /\ ~(vimports \subseteq ALLOWED_MODULES)) => verdict = FALSE

\* C11: validatePythonCode returns false for every snippet in which a
\* deny-listed substring occurs at any position, be it in code, in a comment,
\* in a string literal or inside a longer word, also when every module the
\* snippet imports is in the allow-set.
RejectsDeniedSubstrings ==
    ( /\ vpc = "validated"
      /\ \E term \in blacklist :
            \E p \in 1..Len(vsnippet) :
                /\ p + Len(term) - 1 <= Len(vsnippet)
                /\ SubSeq(vsnippet, p, p + Len(term) - 1) = term )
        => verdict = FALSE

\* 'import math' followed by the comment '# profile' has been rejected
DeniedCommentRejected ==
    /\ vpc = "validated"
    /\ vlines = 2
    /\ vimports = {W_math}
    /\ Includes(vsnippet, <<"#", " ", "p", "r", "o", "f", "i", "l", "e">>)
    /\ ImportsAllowed(vsnippet)
    /\ verdict = FALSE

\* C12: once an invocation whose child ran into the 5 second limit has returned,
\* the child is gone, the result is the timeout failure {error: 'Execution
\* timed out'} and not the message of the failed command, and the artifact no
\* longer exists.
TimeoutReportedAsTimeout ==
    \A c \in Callers :
        (ex[c].pc = "returned" /\ ex[c].child.kind = "timeout") =>
            /\ c \notin children
            /\ ex[c].result = ResultError(MsgTimedOut)
            /\ ex[c].result.error # ex[c].message
            /\ ~FileExists(ex[c].tempFileName)

\* C13: once an invocation whose child exited by itself has returned, its result
\* is {output: the trimmed stdout} when the child wrote nothing to stderr and
\* {error: the stderr text} when it did, whatever the exit code; and every
\* result an invocation returns has exactly one of the fields output and error.
NormalExitShapes ==
    \A c \in Callers :
        ex[c].pc = "returned" =>
            /\ ex[c].result.hasOutput # ex[c].result.hasError
            /\ ex[c].child.kind = "exit" =>
                  IF ex[c].child.stderr = <<>>
                  THEN ex[c].result = ResultOutput(Trim(ex[c].child.stdout))
                  ELSE ex[c].result = ResultError(ex[c].child.stderr)

\* C14: a POST to /execute is answered once, when executePythonCode has settled:
\* with 200 {output} when it returned without an error, with 400 {error} when
\* it returned an error, which for "import os" followed by os.system('ls') is
\* 'Invalid or unauthorized Python code', and with 500 {error} when and only
\* when it threw; a response once sent is never replaced.
ExecuteAnswersOnce ==
    /\ [][(kind = "execute" /\ pc = "awaitExec" /\ pc' = "done") =>
            /\ http = NoHttp
            /\ Settled(slot)
            /\ IF ex[slot].pc = "thrown"
               THEN http' = Http(500, "error", FRText(<<"Failed to execute code">>),
                                 FRAbsent)
               ELSE IF ex[slot].result.hasError
               THEN /\ http' = Http(400, "error", FRText(ex[slot].result.error), FRAbsent)
                    /\ ex[slot].code = S_osScenario => ex[slot].result.error = MsgInvalid
               ELSE http' = Http(200, "output", FRText(ex[slot].result.output), FRAbsent)]_vars
    /\ [][http # NoHttp => http' = http]_vars
    /\ [](kind = "execute" /\ pc = "awaitExec" => http = NoHttp)

\* /execute has answered 400 with the validator's rejection
ExecuteAnsweredInvalid ==
    /\ kind = "execute"
    /\ pc = "done"
    /\ http = Http(400, "error", FRText(MsgInvalid), FRAbsent)

\* C15: the finally block never changes what an invocation delivers: from its
\* unlink the invocation goes on to return, never to throw, with the result
\* computed before; so a returned invocation has the result its child or its
\* write error determines, whether the unlink succeeded or failed.
UnlinkFailureNotSurfaced ==
    /\ [][\A c \in Callers :
            (ex[c].pc = "unlink" /\ ex'[c].pc # "unlink") =>
                /\ ex'[c].pc = "returned"
                /\ ex'[c].result = ex[c].result]_vars
    /\ [](\A c \in Callers :
            (ex[c].pc = "returned" /\ ex[c].validated) =>
                ex[c].result = IF ex[c].child.kind = "none"
                               THEN CatchResult(ex[c].message)
                               ELSE ResultOfChild(ex[c].child))

\* an invocation has returned the output of its child although its unlink failed
OutputReturnedUnlinkFailed ==
    \E c \in Callers :
        /\ ex[c].pc = "returned"
        /\ ex[c].wrote
        /\ ~ex[c].unlinkOk
        /\ FileExists(ex[c].tempFileName)
        /\ ex[c].result = ResultOutput(<<"4">>)

\* the invocation of caller c is between its validation and its return
InProgress(c) == ex[c].pc \in {"writeFile", "running", "afterChild", "unlink"}

\* the artifact of caller c exists with the snippet of c as its content
ArtifactIntact(c) == <<ex[c].tempFileName, ex[c].code>> \in files

\* no other invocation has drawn the temp filename of caller c
NameUnshared(c) == \A d \in Callers \ {c} : ex[d].tempFileName # ex[c].tempFileName

\* C16 as claimed: two invocations of executePythonCode never have the same
\* temp filename; while the child of one is running its artifact exists with
\* its own content (the other has neither overwritten nor deleted it); and an
\* invocation in progress can always take its next step, whatever the other does.
ConcurrentInvocationsIsolated ==
    \A c \in Callers :
        /\ ex[c].tempFileName # "" => NameUnshared(c)
        /\ ex[c].pc = "running" => ArtifactIntact(c)
        /\ InProgress(c) => ENABLED ExecStep(c)

\* C16 as amended: while the child of an invocation whose temp filename no other
\* invocation has drawn is running, its artifact exists with its own content;
\* and an invocation in progress can always take its next step, whatever the
\* other does.
UnsharedNameIsolated ==
    \A c \in Callers :
        /\ (ex[c].pc = "running" /\ NameUnshared(c)) => ArtifactIntact(c)
        /\ InProgress(c) => ENABLED ExecStep(c)

\* one invocation has returned with its artifact deleted while the child of the
\* other, under another name, is running with its artifact in place
OtherReturnedWhileRunning ==
    \E c, d \in Callers :
        /\ c # d
        /\ ex[c].pc = "running"
        /\ ArtifactIntact(c)
        /\ ex[d].pc = "returned"
        /\ ex[d].wrote
        /\ ex[d].unlinkOk
        /\ ex[d].tempFileName # ex[c].tempFileName

MalformedArgsAnsweredWithText ==
    ( /\ kind = "chat"
      /\ dispatched # <<>>
      /\ parts[1].name \in {"getChart", "generateMermaid", "generateQuiz"}
      /\ ~WellFormed(parts[1].name, args) ) =>
        /\ functionResponse.type = "text"
        /\ \E k \in Followups :
              /\ modelCalls[k].part = 1
              /\ modelCalls[k].content = functionResponse

\* C20: for every generateMermaid call with a diagram text and a declared type,
\* the diagram text of the tool result starts with the header of that type:
\* 'flowchart TD', 'sequenceDiagram', 'classDiagram', 'stateDiagram-v2',
\* 'erDiagram' or 'gantt'.
DiagramStartsWithHeader ==
    ( /\ kind = "chat"
      /\ dispatched # <<>>
      /\ parts[1].name = "generateMermaid"
      /\ WellFormed("generateMermaid", args) ) =>
        LET header ==
                CASE args.type.v = <<"flowchart">> ->
                        <<"f", "l", "o", "w", "c", "h", "a", "r", "t", " ", "T", "D">>
                  [] args.type.v = <<"sequence">> ->
                    <<"s", "e", "q", "u", "e", "n", "c", "e", "D", "i", "a", "g", "r", "a", "m">>
                  [] args.type.v = <<"class">> ->
                        <<"c", "l", "a", "s", "s", "D", "i", "a", "g", "r", "a", "m">>
                  [] args.type.v = <<"state">> ->
                    <<"s", "t", "a", "t", "e", "D", "i", "a", "g", "r", "a", "m", "-", "v", "2">>
                  [] args.type.v = <<"er">> -> <<"e", "r", "D", "i", "a", "g", "r", "a", "m">>
                  [] args.type.v = <<"gantt">> -> <<"g", "a", "n", "t", "t">>
        IN  /\ functionResponse.type = "mermaid"
            /\ functionResponse.value.code.t = "string"
            /\ StartsAt(functionResponse.value.code.v, 1, header)

\* how far a /chat request has come: the part the loop is at, and within a
\* part the position of the handler and of the invocation it awaits
ChatRank ==
    IF pc = "done" THEN 10 * (Len(parts) + 2)
    ELSE 10 * idx +
         CASE pc = "awaitFollowup" -> 6
           [] pc = "awaitExec" ->
                CASE ex[slot].pc = "writeFile" -> 1
                  [] ex[slot].pc = "running" -> 2
                  [] ex[slot].pc = "afterChild" -> 3
                  [] ex[slot].pc = "unlink" -> 4
                  [] OTHER -> 5
           [] OTHER -> 0

\* some step of a /chat request is possible: a step of the route or of the
\* invocation it awaits, or the call of executePythonCode for a runPython part
ChatCanStep ==
    \/ /\ pc = "loop"
       /\ idx <= Len(parts)
       /\ parts[idx].isCall
       /\ parts[idx].name = "runPython"
       /\ IdleSlots # {}
    \/ ENABLED ( \/ ChatFirstResponse
                 \/ ChatSkipPart
                 \/ ChatAfterRunPython
                 \/ ChatDispatchPureTool
                 \/ ChatDispatchUnknown
                 \/ ChatFollowupOk
                 \/ ChatFollowupFail
                 \/ ChatRespond
                 \/ \E c \in Callers : ExecStep(c) )

\* C19: a /chat request of route.ts is answered once, and only by HTTP 200 with
\* a 'response' text and possibly a functionOutput or by HTTP 500 with an
\* 'error' text; before its end no response has been sent and a step is always
\* possible; every step brings the request nearer to its end, so it ends after
\* finitely many steps; at most one model call is made per part of the first
\* response, after the first call.
ChatEndsWithOneResponse ==
    /\ [](kind = "chat" =>
            /\ pc # "done" => http = NoHttp /\ ChatCanStep
            /\ pc = "done" =>
                  \/ /\ http.status = 200
                     /\ http.field = "response"
                     /\ http.value.type = "text"
                     /\ http.functionOutput.type \in
                            {"absent", "text", "chart", "mermaid", "quiz"}
                  \/ /\ http.status = 500
                     /\ http.field = "error"
                     /\ http.value.type = "text"
                     /\ http.functionOutput = FRAbsent
            /\ Len(modelCalls) <= 1 + Len(parts)
            /\ ChatRank <= 10 * (MaxParts + 2))
    /\ [][kind = "chat" => ChatRank' > ChatRank /\ (http # NoHttp => http' = http)]_vars

\* a /chat request has ended with HTTP 200 and a functionOutput after three model calls
ChatAnsweredAfterTwoFollowups ==
    /\ kind = "chat"
    /\ pc = "done"
    /\ http.status = 200
    /\ http.functionOutput.type = "text"
    /\ Len(modelCalls) = 3

\* C21: the generateMermaid case is idempotent: for every diagram text and
\* every type, a second call with the diagram text of the first result as its
\* code and the same type yields the first result again.
DiagramTransformIdempotent ==
    ( /\ kind = "chat"
      /\ dispatched # <<>>
      /\ parts[1].name = "generateMermaid"
      /\ functionResponse.type = "mermaid" ) =>
        ToolResponse("generateMermaid", [args EXCEPT !.code = functionResponse.value.code])
            = functionResponse

\* a generateMermaid call of type sequence for 'graph TD\nA-->B' has been
\* dispatched and its result sent to the model
GraphTextDispatchedAsSequence ==
    /\ kind = "chat"
    /\ pc = "awaitFollowup"
    /\ parts[1].name = "generateMermaid"
    /\ args.type = JsString(<<"sequence">>)
    /\ args.code = JsString(D_graph)
    /\ functionResponse.type = "mermaid"
    /\ modelCalls[Len(modelCalls)].content = functionResponse

\* C22: the HTTP 200 response of a /chat request of route.ts has a
\* functionOutput exactly when a function response was sent to the model in the
\* request; it is then the content of the last one sent, which answers the
\* last invocation in the order of the parts that produced a result, and
\* 'response' is the text of the model's reply to that call; otherwise
\* 'response' is the text of the first model response.
FunctionOutputIsLastResult ==
    (kind = "chat" /\ pc = "done" /\ http.status = 200) =>
        IF Followups = {}
        THEN http = Http(200, "response", FRText(FirstText), FRAbsent)
        ELSE LET k == CHOOSE m \in Followups : \A n \in Followups : n <= m
             IN  /\ http = Http(200, "response", FRText(ReplyText(k)), modelCalls[k].content)
                 /\ http.functionOutput # FRAbsent
                 /\ Truthy(http.functionOutput)
                 /\ ~modelCalls[k].failed
                 /\ \A n \in Followups : modelCalls[n].part <= modelCalls[k].part

\* a request whose getChart call is followed by a runPython call of 'x = 1',
\* which prints nothing, has been answered with the chart as functionOutput
ChartOutputAfterSilentSnippet ==
    /\ kind = "chat"
    /\ pc = "done"
    /\ Len(parts) = 2
    /\ parts[1].name = "getChart"
    /\ parts[2] = RunPythonPart(S_assign)
    /\ dispatched = <<1, 2>>
    /\ http.status = 200
    /\ http.functionOutput = FRObject("chart")

\* C23: in a request served by handler.ts the first runPython or getChart call
\* of the response is the only one dispatched and no follow-up call is made to
\* the model; and the answer to a runPython call is HTTP 200 with the output
\* when executePythonCode returned without an error, HTTP 400 with 'Error: '
\* and the error text when it returned an error, HTTP 500 when it threw.
SingleCallStatusReflectsOutcome ==
    /\ [](kind = "handler" =>
            /\ Followups = {}
            /\ Len(dispatched) <= 1
            /\ \A j \in Range(dispatched) :
                  /\ parts[j].isCall /\ parts[j].name \in {"runPython", "getChart"}
                  /\ \A i \in 1..(j - 1) :
                        ~(parts[i].isCall /\ parts[i].name \in {"runPython", "getChart"})
            /\ (dispatched # <<>> /\ pc = "done") => idx = dispatched[1])
    /\ [][(kind = "handler" /\ pc = "awaitExec" /\ pc' = "done") =>
            IF ex[slot].pc = "thrown"
            THEN http'.status = 500
            ELSE IF ex[slot].result.hasError
            THEN http' = Http(400, "response",
                              FRText(<<"Error: ">> \o ex[slot].result.error), FRAbsent)
            ELSE http' = Http(200, "response", FRText(ex[slot].result.output), FRAbsent)]_vars

\* C24: in the chat page no step removes a message or changes a user message;
\* a message changes only when a reload settles, and then it is the assistant
\* message that was last when Refresh was pressed; and when no request is
\* pending isGenerating and isLoading are both false.
MessagesOnlyAppended ==
    /\ [][ /\ Len(page'.messages) >= Len(page.messages)
           /\ \A i \in DOMAIN page.messages :
                page'.messages[i] # page.messages[i] =>
                    /\ page.messages[i].role = "assistant"
                    /\ \E r \in page.pending \ page'.pending :
                          r.handler = "reload" /\ r.last = i ]_vars
    /\ [](page.pending = {} => ~page.isGenerating /\ ~page.isLoading)

=============================================================================
